---- MODULE Spec2Model ----
(***************************************************************************)
(* Dependency graph engine of agent-skills: SkillGraph::from_skills, the   *)
(* analysis passes, filter_pipeline / filter_tag / filter_to_skills and    *)
(* the four exporters of src/graph/mod.rs, driven as commands/graph.rs     *)
(* drives them: discover the input, build the full graph, filter it; and    *)
(* the navigation state machine of src/tui/graph_view.rs over such a graph.*)
(*                                                                         *)
(* Skill names are the integers 1..MaxNames; the integer order stands for  *)
(* the lexicographic order of the name strings (NameText gives the text).  *)
(* Option<Vec<_>> and Option<HashMap<_,_>> fields are modelled by the      *)
(* empty sequence / the empty map for None: every use in the source treats *)
(* None and the empty collection alike.                                    *)
(***************************************************************************)
EXTENDS Integers, Sequences, FiniteSets, TLC

VARIABLES crossrefs, skills, decls, full_graph, skill_graph, filter, result,
          mode, list_state, graph, trail, edge_list_state

\* The fields of the TUI's GraphViewState.
view == <<mode, list_state, graph, trail, edge_list_state>>

vars == <<crossrefs, skills, decls, full_graph, skill_graph, filter, result, view>>

\* ---- bounds of the model ----
MaxNames == 3
MaxDecls == 3
MaxFilterDecls == 2
MaxNavDecls == 2
MaxTrail == 2

Names == 1..MaxNames
PipelineNames == {"p", "q"}
Tags == {"t"}

\* ---- generic helpers ----
Range(s) == {s[i] : i \in DOMAIN s}

Min(S) == CHOOSE x \in S : \A y \in S : x <= y

Perms(S) == {p \in [1..Cardinality(S) -> S] : \A i, j \in DOMAIN p : i # j => p[i] # p[j]}

\* Iteration order of a HashMap with key set K: the keys in the order the
\* hash seed `order` (a permutation of all possible keys) puts them in.
KeysInOrder(K, order) == SelectSeq(order, LAMBDA k : k \in K)

\* Vec::sort on names: insertion sort.
RECURSIVE Insert(_, _)
Insert(x, s) ==
    IF s = <<>> THEN <<x>>
    ELSE IF x <= Head(s) THEN <<x>> \o s
    ELSE <<Head(s)>> \o Insert(x, Tail(s))

RECURSIVE Sort(_)
Sort(s) == IF s = <<>> THEN <<>> ELSE Insert(Head(s), Sort(Tail(s)))

\* Vec::dedup: removes consecutive repeats.
RECURSIVE Dedup(_)
Dedup(s) ==
    IF Len(s) <= 1 THEN s
    ELSE IF s[1] = s[2] THEN Dedup(Tail(s))
    ELSE <<s[1]>> \o Dedup(Tail(s))

Reverse(s) == [i \in 1..Len(s) |-> s[Len(s) + 1 - i]]

\* ---- input data (crate::skill::{CrossRef, Skill}) ----
\* Option as a sequence of length 0 or 1.
None == <<>>
Some(x) == <<x>>

\* A pipeline stage: only `after` and `before` are read by the graph code.
PipelineStage(after, before) == [after |-> after, before |-> before]

\* A skill record: name, frontmatter.tags, frontmatter.pipeline.
Skill(name, tags, pipeline) == [name |-> name, tags |-> tags, pipeline |-> pipeline]

NoPipeline == [p \in PipelineNames |-> None]

SkillNames(sk) == {sk[i].name : i \in DOMAIN sk}

\* crossrefs: HashMap<String, Vec<CrossRef>>; a CrossRef is its target
\* (line and method are carried, never read by the graph code).
CrossrefKeys(cr) == {k \in DOMAIN cr : cr[k] # None}
CrossrefTargets(cr) == UNION {Range(cr[k][1]) : k \in CrossrefKeys(cr)}

\* ---- SkillGraph::from_skills ----
CrossRefKind == "CrossRef"
PipelineKind == "Pipeline"

Edge(source, target, kind) == [source |-> source, target |-> target, kind |-> kind]

\* name_to_node.get(name).is_some()
HasNode(nodes, name) == name \in Range(nodes)

\* The loop body without the edge_set test.
AddCrossRefEdge_NoDedup(st, nodes, source, target) ==
    IF HasNode(nodes, target)
    THEN [st EXCEPT !.edges = Append(@, Edge(source, target, CrossRefKind)),
                    !.edge_set = @ \cup {<<source, target>>}]
    ELSE st

\* One iteration of the inner cross-reference loop.
AddCrossRefEdge(st, nodes, source, target) ==
    IF <<source, target>> \notin st.edge_set
    THEN IF HasNode(nodes, target)
         THEN [st EXCEPT !.edges = Append(@, Edge(source, target, CrossRefKind)),
                         !.edge_set = @ \cup {<<source, target>>}]
         ELSE st
    ELSE st

RECURSIVE AddCrossRefs(_, _, _, _)
AddCrossRefs(st, nodes, source, refs) ==
    IF refs = <<>> THEN st
    ELSE AddCrossRefs(AddCrossRefEdge(st, nodes, source, Head(refs)), nodes, source, Tail(refs))

\* The outer cross-reference loop; `name_to_node[source]` panics on a
\* source that is no node.
RECURSIVE AddAllCrossRefs(_, _, _, _)
AddAllCrossRefs(st, nodes, cr, keys) ==
    IF keys = <<>> THEN st
    ELSE LET source == Head(keys)
             st1 == IF HasNode(nodes, source) THEN st ELSE [st EXCEPT !.panicked = TRUE]
         IN  AddAllCrossRefs(AddCrossRefs(st1, nodes, source, cr[source][1]), nodes, cr, Tail(keys))

\* One iteration of an `after` or `before` loop, on the edge key it built.
AddPipelineEdge(st, nodes, source, target) ==
    IF <<source, target>> \notin st.edge_set
    THEN IF HasNode(nodes, source) /\ HasNode(nodes, target)
         THEN [st EXCEPT !.edges = Append(@, Edge(source, target, PipelineKind)),
                         !.edge_set = @ \cup {<<source, target>>}]
         ELSE st
    ELSE st

\* The `after` loop with the edge key turned round.
RECURSIVE AddAfter_Reversed(_, _, _, _)
AddAfter_Reversed(st, nodes, name, after) ==
    IF after = <<>> THEN st
    ELSE AddAfter_Reversed(AddPipelineEdge(st, nodes, Head(after), name), nodes, name, Tail(after))

\* "after" means this skill depends on those skills.
RECURSIVE AddAfter(_, _, _, _)
AddAfter(st, nodes, name, after) ==
    IF after = <<>> THEN st
    ELSE AddAfter(AddPipelineEdge(st, nodes, name, Head(after)), nodes, name, Tail(after))

\* The `before` loop with the edge key not turned round.
RECURSIVE AddBefore_Forward(_, _, _, _)
AddBefore_Forward(st, nodes, name, before) ==
    IF before = <<>> THEN st
    ELSE AddBefore_Forward(AddPipelineEdge(st, nodes, name, Head(before)), nodes, name, Tail(before))

\* "before" means those skills depend on this skill (reverse direction).
RECURSIVE AddBefore(_, _, _, _)
AddBefore(st, nodes, name, before) ==
    IF before = <<>> THEN st
    ELSE AddBefore(AddPipelineEdge(st, nodes, Head(before), name), nodes, name, Tail(before))

AddStage(st, nodes, name, stage) ==
    AddBefore(AddAfter(st, nodes, name, stage.after), nodes, name, stage.before)

\* for stage in pipeline.values(), in the map's iteration order.
RECURSIVE AddStages(_, _, _, _)
AddStages(st, nodes, skill, pnames) ==
    IF pnames = <<>> THEN st
    ELSE AddStages(AddStage(st, nodes, skill.name, skill.pipeline[Head(pnames)][1]),
                   nodes, skill, Tail(pnames))

RECURSIVE AddAllPipelines(_, _, _, _)
AddAllPipelines(st, nodes, sk, porder) ==
    IF sk = <<>> THEN st
    ELSE LET skill == Head(sk)
             declared == {p \in PipelineNames : skill.pipeline[p] # None}
         IN  AddAllPipelines(AddStages(st, nodes, skill, KeysInOrder(declared, porder)),
                             nodes, Tail(sk), porder)

\* ---- petgraph queries used by the analysis ----
\* graph.edges(idx): the outgoing edges of a node, newest first.
OutEdges(edges, name) == Reverse(SelectSeq(edges, LAMBDA e : e.source = name))

\* graph.edges_directed(idx, Incoming)
InEdges(edges, name) == Reverse(SelectSeq(edges, LAMBDA e : e.target = name))

Successors(edges, S) == {edges[i].target : i \in {j \in DOMAIN edges : edges[j].source \in S}}

RECURSIVE Reachable(_, _)
Reachable(edges, S) ==
    LET T == S \cup Successors(edges, S)
    IN  IF T = S THEN S ELSE Reachable(edges, T)

SccOf(edges, n) == {m \in Reachable(edges, {n}) : n \in Reachable(edges, {m})}

\* Emits the components sinks first (the post-order of the condensation).
RECURSIVE PostOrder(_, _)
PostOrder(edges, comps) ==
    IF comps = {} THEN <<>>
    ELSE LET rest(C) == UNION (comps \ {C})
             sinks == {C \in comps : Successors(edges, C) \cap rest(C) = {}}
             C == CHOOSE X \in sinks : \A Y \in sinks : Min(X) <= Min(Y)
         IN  <<KeysInOrder(C, [i \in Names |-> i])>> \o PostOrder(edges, comps \ {C})

\* petgraph::algo::tarjan_scc: the strongly connected components, in
\* post-order; the members of a component are given in node-index order.
tarjan_scc(nodes, edges) == PostOrder(edges, {SccOf(edges, n) : n \in Range(nodes)})

\* ---- analysis ----
\* The filter keeping every component.
detect_clusters_All(nodes, edges) ==
    SelectSeq(tarjan_scc(nodes, edges), LAMBDA cluster : Len(cluster) > 0)

detect_clusters(nodes, edges) ==
    SelectSeq(tarjan_scc(nodes, edges), LAMBDA cluster : Len(cluster) > 1)

\* find_roots without the final sort.
find_roots_Unsorted(nodes, edges, order) ==
    SelectSeq(KeysInOrder(Range(nodes), order), LAMBDA name : Len(InEdges(edges, name)) = 0)

find_roots(nodes, edges, order) ==
    Sort(SelectSeq(KeysInOrder(Range(nodes), order),
                   LAMBDA name : Len(InEdges(edges, name)) = 0))

find_leaves(nodes, edges, order) ==
    Sort(SelectSeq(KeysInOrder(Range(nodes), order),
                   LAMBDA name : Len(OutEdges(edges, name)) = 0))

\* find_bridges asking for an incoming or an outgoing edge.
find_bridges_Either(nodes, edges, order) ==
    Sort(SelectSeq(KeysInOrder(Range(nodes), order),
                   LAMBDA name : Len(InEdges(edges, name)) > 0 \/ Len(OutEdges(edges, name)) > 0))

\* find_bridges not counting an edge from a node to itself.
find_bridges_NoSelfLoop(nodes, edges, order) ==
    Sort(SelectSeq(KeysInOrder(Range(nodes), order),
                   LAMBDA name :
                       /\ \E i \in DOMAIN edges : edges[i].target = name /\ edges[i].source # name
                       /\ \E i \in DOMAIN edges : edges[i].source = name /\ edges[i].target # name))

find_bridges(nodes, edges, order) ==
    Sort(SelectSeq(KeysInOrder(Range(nodes), order),
                   LAMBDA name : Len(InEdges(edges, name)) > 0 /\ Len(OutEdges(edges, name)) > 0))

\* The collection without the discovered skills.
CollectNames_NoSkills(cr, sk) == CrossrefKeys(cr) \cup CrossrefTargets(cr)

\* The collection without the cross-reference targets.
CollectNames_NoTargets(cr, sk) == CrossrefKeys(cr) \cup SkillNames(sk)

\* The names that become nodes: every crossrefs key, every cross-reference
\* target, every discovered skill.
CollectNames(cr, sk) == CrossrefKeys(cr) \cup CrossrefTargets(cr) \cup SkillNames(sk)

\* `order` and `porder` are the iteration orders of the HashMaps and
\* HashSets keyed by skill name and by pipeline name.
\* from_skills running the pipeline loop before the cross-reference loop.
from_skills_PipelinesFirst(cr, sk, order, porder) ==
    LET all_skills == CollectNames(cr, sk)
        sorted_skills == Sort(KeysInOrder(all_skills, order))
        st0 == [edges |-> <<>>, edge_set |-> {}, panicked |-> FALSE]
        st1 == AddAllPipelines(st0, sorted_skills, sk, porder)
        st2 == AddAllCrossRefs(st1, sorted_skills, cr, KeysInOrder(CrossrefKeys(cr), order))
    IN  [nodes |-> sorted_skills,
         edges |-> st2.edges,
         panicked |-> st2.panicked,
         clusters |-> detect_clusters(sorted_skills, st2.edges),
         roots |-> find_roots(sorted_skills, st2.edges, order),
         leaves |-> find_leaves(sorted_skills, st2.edges, order),
         bridges |-> find_bridges(sorted_skills, st2.edges, order)]

from_skills(cr, sk, order, porder) ==
    LET all_skills == CollectNames(cr, sk)
        sorted_skills == Sort(KeysInOrder(all_skills, order))
        st0 == [edges |-> <<>>, edge_set |-> {}, panicked |-> FALSE]
        st1 == AddAllCrossRefs(st0, sorted_skills, cr, KeysInOrder(CrossrefKeys(cr), order))
        st2 == AddAllPipelines(st1, sorted_skills, sk, porder)
    IN  [nodes |-> sorted_skills,
         edges |-> st2.edges,
         panicked |-> st2.panicked,
         clusters |-> detect_clusters(sorted_skills, st2.edges),
         roots |-> find_roots(sorted_skills, st2.edges, order),
         leaves |-> find_leaves(sorted_skills, st2.edges, order),
         bridges |-> find_bridges(sorted_skills, st2.edges, order)]

\* ---- filters ----
\* The rebuilt map holding only the parent's CrossRef edges.
RebuiltCrossrefs_CrossRefOnly(g, keep) ==
    [name \in Names |->
        IF HasNode(g.nodes, name) /\ name \in keep
        THEN LET kept == SelectSeq(OutEdges(g.edges, name),
                                   LAMBDA e : e.target \in keep /\ e.kind = CrossRefKind)
                 refs == [i \in 1..Len(kept) |-> kept[i].target]
             IN  IF refs # <<>> THEN Some(refs) ELSE None
        ELSE None]

\* The rebuilt map without the test that the target is kept.
RebuiltCrossrefs_AnyTarget(g, keep) ==
    [name \in Names |->
        IF HasNode(g.nodes, name) /\ name \in keep
        THEN LET kept == OutEdges(g.edges, name)
                 refs == [i \in 1..Len(kept) |-> kept[i].target]
             IN  IF refs # <<>> THEN Some(refs) ELSE None
        ELSE None]

\* The crossrefs map filter_to_skills rebuilds: for every kept node, its
\* outgoing edges to kept nodes, inserted only when there is one.
RebuiltCrossrefs(g, keep) ==
    [name \in Names |->
        IF HasNode(g.nodes, name) /\ name \in keep
        THEN LET kept == SelectSeq(OutEdges(g.edges, name), LAMBDA e : e.target \in keep)
                 refs == [i \in 1..Len(kept) |-> kept[i].target]
             IN  IF refs # <<>> THEN Some(refs) ELSE None
        ELSE None]

\* filter_to_skills handing the builder no skill records.
filter_to_skills_NoSkills(g, keep, sk, order, porder) ==
    from_skills(RebuiltCrossrefs(g, keep), <<>>, order, porder)

filter_to_skills(g, keep, sk, order, porder) ==
    LET filtered_skills == SelectSeq(sk, LAMBDA s : s.name \in keep)
    IN  from_skills(RebuiltCrossrefs(g, keep), filtered_skills, order, porder)

PipelineSkills(sk, pipeline_name) ==
    {sk[i].name : i \in {j \in DOMAIN sk : sk[j].pipeline[pipeline_name] # None}}

TaggedSkills(sk, tag) ==
    {sk[i].name : i \in {j \in DOMAIN sk : tag \in sk[j].tags}}

filter_pipeline(g, sk, pipeline_name, order, porder) ==
    filter_to_skills(g, PipelineSkills(sk, pipeline_name), sk, order, porder)

\* filter_tag handing back the parent's analysis lists with the rebuilt
\* nodes and edges.
filter_tag_ParentAnalysis(g, sk, tag, order, porder) ==
    [filter_to_skills(g, TaggedSkills(sk, tag), sk, order, porder)
        EXCEPT !.roots = g.roots, !.leaves = g.leaves,
               !.bridges = g.bridges, !.clusters = g.clusters]

filter_tag(g, sk, tag, order, porder) ==
    filter_to_skills(g, TaggedSkills(sk, tag), sk, order, porder)

\* ---- exporters ----
\* The text of the names, in lexicographic order, as character sequences.
NameTable == << <<"a", "-", "b">>, <<"a", "_", "b">>, <<"c">>, <<"d">>, <<"e">> >>
NameText(name) == NameTable[name]
Texts(names) == [i \in 1..Len(names) |-> NameText(names[i])]

sanitize_mermaid(s) == [i \in 1..Len(s) |-> IF s[i] = "-" THEN "_" ELSE s[i]]

DotColor(g, name) ==
    IF name \in Range(g.roots) THEN "lightblue"
    ELSE IF name \in Range(g.leaves) THEN "lightgreen"
    ELSE IF name \in Range(g.bridges) THEN "orange"
    ELSE "white"

\* The exports are sequences of lines; a line is the tuple of its parts.
to_dot(g, order) ==
    LET sorted == Sort(KeysInOrder(Range(g.nodes), order))
        nodeLines == [i \in 1..Len(sorted) |->
                        <<"node", NameText(sorted[i]), DotColor(g, sorted[i])>>]
        edgeLines == [i \in 1..Len(g.edges) |->
                        <<"edge", NameText(g.edges[i].source), NameText(g.edges[i].target),
                          IF g.edges[i].kind = CrossRefKind THEN "" ELSE "style=dashed, color=blue">>]
    IN  <<<<"digraph SkillGraph {">>>> \o nodeLines \o edgeLines \o <<<<"}">>>>

\* to_text listing each node's targets as petgraph yields them, unsorted.
to_text_Unsorted(g, order) ==
    LET sorted_skills == Sort(KeysInOrder(Range(g.nodes), order))
        targetsOf(skill) ==
            LET out == OutEdges(g.edges, skill)
            IN  [i \in 1..Len(out) |-> out[i].target]
        line(skill) ==
            IF targetsOf(skill) = <<>> THEN <<NameText(skill), <<<<"(none)">>>> >>
            ELSE <<NameText(skill), Texts(targetsOf(skill))>>
    IN  << <<"Skills", Len(g.nodes)>>, <<"Clusters", Len(g.clusters)>>,
           <<"Roots", Len(g.roots)>>, <<"Leaves", Len(g.leaves)>>,
           <<"Bridges", Len(g.bridges)>> >>
        \o [i \in 1..Len(sorted_skills) |-> line(sorted_skills[i])]

to_text(g, order) ==
    LET sorted_skills == Sort(KeysInOrder(Range(g.nodes), order))
        targetsOf(skill) ==
            LET out == OutEdges(g.edges, skill)
            IN  Dedup(Sort([i \in 1..Len(out) |-> out[i].target]))
        line(skill) ==
            IF targetsOf(skill) = <<>> THEN <<NameText(skill), <<<<"(none)">>>> >>
            ELSE <<NameText(skill), Texts(targetsOf(skill))>>
    IN  << <<"Skills", Len(g.nodes)>>, <<"Clusters", Len(g.clusters)>>,
           <<"Roots", Len(g.roots)>>, <<"Leaves", Len(g.leaves)>>,
           <<"Bridges", Len(g.bridges)>> >>
        \o [i \in 1..Len(sorted_skills) |-> line(sorted_skills[i])]

RECURSIVE JsonEdges(_, _)
JsonEdges(g, sorted) ==
    IF sorted = <<>> THEN <<>>
    ELSE LET out == OutEdges(g.edges, Head(sorted))
         IN  [i \in 1..Len(out) |->
                [source |-> NameText(Head(sorted)), target |-> NameText(out[i].target),
                 kind |-> IF out[i].kind = CrossRefKind THEN "crossref" ELSE "pipeline"]]
             \o JsonEdges(g, Tail(sorted))

to_json(g, order) ==
    LET sorted == Sort(KeysInOrder(Range(g.nodes), order))
    IN  [nodes |-> [i \in 1..Len(sorted) |->
                      [id |-> NameText(sorted[i]),
                       is_root |-> sorted[i] \in Range(g.roots),
                       is_leaf |-> sorted[i] \in Range(g.leaves),
                       is_bridge |-> sorted[i] \in Range(g.bridges)]],
         edges |-> JsonEdges(g, sorted),
         clusters |-> [i \in 1..Len(g.clusters) |-> Texts(g.clusters[i])]]

RECURSIVE MermaidLines(_, _)
MermaidLines(edges, seen_edges) ==
    IF edges = <<>> THEN <<>>
    ELSE LET e == Head(edges)
             key == <<e.source, e.target>>
         IN  IF key \in seen_edges THEN MermaidLines(Tail(edges), seen_edges)
             ELSE << <<sanitize_mermaid(NameText(e.source)), NameText(e.source),
                       IF e.kind = CrossRefKind THEN "-->" ELSE "-.->",
                       sanitize_mermaid(NameText(e.target)), NameText(e.target)>> >>
                  \o MermaidLines(Tail(edges), seen_edges \cup {key})

to_mermaid(g) == <<<<"graph LR">>>> \o MermaidLines(g.edges, {})

\* ---- the inputs handed to the builder ----
\* `decls` counts the declarations in the input: cross-references, tags,
\* pipeline stages and their after/before entries.
InputOpen == full_graph = None /\ decls < MaxDecls
TagsOpen == full_graph = None /\ decls < MaxFilterDecls

\* skill::discover_all found one more skill directory.
Discover(name) ==
    /\ full_graph = None
    /\ \A i \in DOMAIN skills : skills[i].name < name
    /\ skills' = Append(skills, Skill(name, {}, NoPipeline))
    /\ UNCHANGED <<crossrefs, decls, full_graph, skill_graph, filter, result, view>>

\* frontmatter: a tag on a discovered skill.
DeclareTag(i, tag) ==
    /\ TagsOpen
    /\ tag \notin skills[i].tags
    /\ skills' = [skills EXCEPT ![i].tags = @ \cup {tag}]
    /\ decls' = decls + 1
    /\ UNCHANGED <<crossrefs, full_graph, skill_graph, filter, result, view>>

\* frontmatter: a pipeline entry without after/before.
DeclareStage(i, p) ==
    /\ TagsOpen
    /\ skills[i].pipeline[p] = None
    /\ skills' = [skills EXCEPT ![i].pipeline[p] = Some(PipelineStage(<<>>, <<>>))]
    /\ decls' = decls + 1
    /\ UNCHANGED <<crossrefs, full_graph, skill_graph, filter, result, view>>

\* The builder never reads a pipeline's name, only the filters do: an
\* after/before entry goes into the stage named "p" unless the skill has
\* that stage already (DeclareStage gives a skill a stage of either name).
NameFree(s, p) == p = "p" \/ s.pipeline["p"] # None

StageOf(s, p) == IF s.pipeline[p] = None THEN PipelineStage(<<>>, <<>>) ELSE s.pipeline[p][1]

\* frontmatter: one more name in a stage's `after` list.
DeclareAfter(i, p, dep) ==
    /\ InputOpen
    /\ NameFree(skills[i], p)
    /\ skills' = [skills EXCEPT ![i].pipeline[p] =
                    Some([StageOf(skills[i], p) EXCEPT !.after = Append(@, dep)])]
    /\ decls' = decls + 1
    /\ UNCHANGED <<crossrefs, full_graph, skill_graph, filter, result, view>>

\* frontmatter: one more name in a stage's `before` list.
DeclareBefore(i, p, dep) ==
    /\ InputOpen
    /\ NameFree(skills[i], p)
    /\ skills' = [skills EXCEPT ![i].pipeline[p] =
                    Some([StageOf(skills[i], p) EXCEPT !.before = Append(@, dep)])]
    /\ decls' = decls + 1
    /\ UNCHANGED <<crossrefs, full_graph, skill_graph, filter, result, view>>

\* crossrefs.insert(source, refs) with one more reference in refs.
InsertCrossRef(source, target) ==
    /\ InputOpen
    /\ crossrefs' = [crossrefs EXCEPT ![source] =
                        IF @ = None THEN Some(<<target>>) ELSE Some(Append(@[1], target))]
    /\ decls' = decls + 1
    /\ UNCHANGED <<skills, full_graph, skill_graph, filter, result, view>>

\* crossrefs.insert(source, vec![])
InsertEmptyRefs(source) ==
    /\ InputOpen
    /\ crossrefs[source] = None
    /\ crossrefs' = [crossrefs EXCEPT ![source] = Some(<<>>)]
    /\ decls' = decls + 1
    /\ UNCHANGED <<skills, full_graph, skill_graph, filter, result, view>>

\* ---- the operations ----
\* The iteration orders a HashMap with key set K can show: every order of
\* K (the names outside K, which the map does not hold, are listed after
\* them in one fixed order).
Ascending(S, p) == \A i, j \in DOMAIN p : (i < j /\ p[i] \notin S /\ p[j] \notin S) => p[i] < p[j]
KeysFirst(S, p) == \A i, j \in DOMAIN p : (p[i] \in S /\ p[j] \notin S) => i < j
NamePerms == Perms(Names)
NameOrders(K) == {p \in NamePerms : Ascending(K, p) /\ KeysFirst(K, p)}

PipelinePerms == Perms(PipelineNames)
PipelineOrders(sk) ==
    IF \E i \in DOMAIN sk : \A p \in PipelineNames : sk[i].pipeline[p] # None
    THEN PipelinePerms
    ELSE {CHOOSE o \in PipelinePerms : o[1] = "p"}

\* SkillGraph::from_skills(&crossrefs, &all_skills); a later call rebuilds
\* the graph from the same input.
Build(order, porder) ==
    /\ full_graph' = Some(from_skills(crossrefs, skills, order, porder))
    /\ skill_graph' = None
    /\ filter' = None
    /\ result' = None
    /\ UNCHANGED <<crossrefs, skills, decls, view>>

\* ---- the graph command's filter stage (commands/graph.rs) ----
\* The names a --pipeline request can carry: the declared ones and one no
\* skill declares.
RequestNames == PipelineNames \cup {"r"}

\* String order of the pipeline names.
PipelineText == <<"p", "q", "r">>
PipelineRank(p) == CHOOSE i \in DOMAIN PipelineText : PipelineText[i] = p

\* What graph() returns: Ok(()) after printing the export of skill_graph,
\* or the error of anyhow::bail! with the requested name and the list of
\* available names.
Ok(kind, name) == [ok |-> TRUE, kind |-> kind, requested |-> name, available |-> <<>>]
Err(kind, name, available) == [ok |-> FALSE, kind |-> kind, requested |-> name, available |-> available]

\* all_skills.iter().any(|s| s.pipeline contains name)
PipelineExists(sk, name) == \E i \in DOMAIN sk : name \in PipelineNames /\ sk[i].pipeline[name] # None

\* The keys pushed to `available`: skill by skill, each pipeline map in
\* its iteration order.
RECURSIVE PushedKeys(_, _)
PushedKeys(sk, porder) ==
    IF sk = <<>> THEN <<>>
    ELSE SelectSeq(porder, LAMBDA p : Head(sk).pipeline[p] # None) \o PushedKeys(Tail(sk), porder)

\* available.sort(); available.dedup();
AvailablePipelines(sk, porder) ==
    LET pushed == PushedKeys(sk, porder)
        ranks == Dedup(Sort([i \in DOMAIN pushed |-> PipelineRank(pushed[i])]))
    IN  [i \in DOMAIN ranks |-> PipelineText[ranks[i]]]

\* GraphFilter::None
NoFilter ==
    /\ full_graph # None
    /\ skill_graph' = full_graph
    /\ filter' = Some([kind |-> "None", name |-> "", keep |-> {}])
    /\ result' = Some(Ok("None", ""))
    /\ UNCHANGED <<crossrefs, skills, decls, full_graph, view>>

\* GraphFilter::Pipeline(name), no skill declaring the pipeline: bail!
PipelineNotFound(name, porder) ==
    /\ full_graph # None
    /\ ~PipelineExists(skills, name)
    /\ skill_graph' = None
    /\ filter' = None
    /\ result' = Some(Err("Pipeline", name, AvailablePipelines(skills, porder)))
    /\ UNCHANGED <<crossrefs, skills, decls, full_graph, view>>

\* GraphFilter::Pipeline(name), the pipeline declared:
\* full_graph.filter_pipeline(&all_skills, name)
FilterPipeline(name, order, porder) ==
    /\ full_graph # None
    /\ PipelineExists(skills, name)
    /\ skill_graph' = Some(filter_pipeline(full_graph[1], skills, name, order, porder))
    /\ filter' = Some([kind |-> "Pipeline", name |-> name, keep |-> PipelineSkills(skills, name)])
    /\ result' = Some(Ok("Pipeline", name))
    /\ UNCHANGED <<crossrefs, skills, decls, full_graph, view>>

\* GraphFilter::Tag(tag): full_graph.filter_tag(&all_skills, tag)
FilterTag(tag, order, porder) ==
    /\ full_graph # None
    /\ skill_graph' = Some(filter_tag(full_graph[1], skills, tag, order, porder))
    /\ filter' = Some([kind |-> "Tag", name |-> tag, keep |-> TaggedSkills(skills, tag)])
    /\ result' = Some(Ok("Tag", tag))
    /\ UNCHANGED <<crossrefs, skills, decls, full_graph, view>>

\* ---- the TUI's graph view (tui/graph_view.rs) ----
\* enum NavigationMode
Browse == "Browse"
Focus == "Focus"

\* The state after GraphViewState::new(), no command run yet.
Init ==
    /\ crossrefs = [n \in Names |-> None]
    /\ skills = <<>>
    /\ decls = 0
    /\ full_graph = None
    /\ skill_graph = None
    /\ filter = None
    /\ result = None
    /\ mode = Browse
    /\ list_state = Some(0)
    /\ graph = None
    /\ trail = <<>>
    /\ edge_list_state = Some(0)

\* The inputs the builder reads.
Declare ==
    \/ \E name \in Names : Discover(name)
    \/ \E i \in DOMAIN skills, p \in PipelineNames, dep \in Names : DeclareAfter(i, p, dep)
    \/ \E i \in DOMAIN skills, p \in PipelineNames, dep \in Names : DeclareBefore(i, p, dep)
    \/ \E source, target \in Names : InsertCrossRef(source, target)
    \/ \E source \in Names : InsertEmptyRefs(source)

BuildGraph ==
    \E order \in NameOrders(CrossrefKeys(crossrefs)), porder \in PipelineOrders(skills) :
        Build(order, porder)

Next == Declare \/ BuildGraph

Spec == Init /\ [][Next]_vars

\* The inputs the filters read as well (tags, pipeline membership), and
\* the filters.
FilterNext ==
    \/ decls < MaxFilterDecls /\ Declare
    \/ \E i \in DOMAIN skills, tag \in Tags : DeclareTag(i, tag)
    \/ \E i \in DOMAIN skills, p \in PipelineNames : DeclareStage(i, p)
    \/ BuildGraph
    \/ NoFilter
    \/ \E name \in PipelineNames :
          /\ full_graph # None
          /\ \E order \in NameOrders(CrossrefKeys(RebuiltCrossrefs(full_graph[1], PipelineSkills(skills, name)))),
                porder \in PipelineOrders(skills) :
                   FilterPipeline(name, order, porder)
    \/ \E name \in RequestNames, porder \in PipelineOrders(skills) : PipelineNotFound(name, porder)
    \/ \E tag \in Tags :
          /\ full_graph # None
          /\ \E order \in NameOrders(CrossrefKeys(RebuiltCrossrefs(full_graph[1], TaggedSkills(skills, tag)))),
                porder \in PipelineOrders(skills) :
                   FilterTag(tag, order, porder)

FilterSpec == Init /\ [][FilterNext]_vars

\* ---- navigation over the graph (tui/graph_view.rs) ----
\* SkillGraph's accessors the view calls: the node names in the graph's
\* (sorted) node order and their number,
node_names(g) == g.nodes
node_count(g) == Len(g.nodes)

\* and the (other end, kind) pairs of a node's outgoing and of its
\* incoming edges, None for a name that is not a node.
edges_from(g, name) ==
    IF HasNode(g.nodes, name)
    THEN LET out == OutEdges(g.edges, name)
         IN  Some([i \in DOMAIN out |-> <<out[i].target, out[i].kind>>])
    ELSE None

edges_to(g, name) ==
    IF HasNode(g.nodes, name)
    THEN LET inc == InEdges(g.edges, name)
         IN  Some([i \in DOMAIN inc |-> <<inc[i].source, inc[i].kind>>])
    ELSE None

\* Option<Vec<_>>::map(|e| e.len()).unwrap_or(0)
LenOrZero(opt) == IF opt = None THEN 0 ELSE Len(opt[1])

count_edges(g, skill_name) ==
    LenOrZero(edges_from(g, skill_name)) + LenOrZero(edges_to(g, skill_name))

\* The list follow_edge and render_edge_list walk: the outgoing edges'
\* targets, then the incoming edges' sources.
all_edges(g, current) ==
    LET from == edges_from(g, current)
        to == edges_to(g, current)
    IN  (IF from = None THEN <<>> ELSE [i \in DOMAIN from[1] |-> from[1][i][1]])
        \o (IF to = None THEN <<>> ELSE [i \in DOMAIN to[1] |-> to[1][i][1]])

\* Vec::last
Last(s) == IF s = <<>> THEN None ELSE Some(s[Len(s)])

\* names.get(idx) on a 0-based index
Get(s, idx) == IF idx + 1 \in DOMAIN s THEN Some(s[idx + 1]) ELSE None

focused_skill ==
    IF mode = Browse
    THEN IF graph = None \/ list_state = None THEN None
         ELSE Get(node_names(graph[1]), list_state[1])
    ELSE Last(trail)

\* The cursor after one step forward over `count` rows.
StepForward(selected, count) ==
    IF selected = None THEN 0
    ELSE IF selected[1] >= count - 1 THEN 0 ELSE selected[1] + 1

\* The cursor after one step backward over `count` rows.
StepBackward(selected, count) ==
    IF selected = None THEN 0
    ELSE IF selected[1] = 0 THEN count - 1 ELSE selected[1] - 1

input == <<crossrefs, skills, decls, full_graph, skill_graph, filter, result>>

\* The crossrefs map refresh builds: the references found in each
\* skill's file, inserted only when there is one.
RefreshCrossrefs(cr, sk) ==
    [name \in Names |->
        IF name \in SkillNames(sk) /\ cr[name] # None /\ cr[name][1] # <<>>
        THEN cr[name] ELSE None]

\* refresh leaving the mode as it is.
refresh_KeepMode(order, porder) ==
    /\ list_state' = IF skills # <<>> THEN Some(0) ELSE list_state
    /\ trail' = <<>>
    /\ UNCHANGED <<mode, edge_list_state, input>>
    /\ graph' = Some(from_skills(RefreshCrossrefs(crossrefs, skills), skills, order, porder))

\* refresh leaving the trail as it is.
refresh_KeepTrail(order, porder) ==
    /\ list_state' = IF skills # <<>> THEN Some(0) ELSE list_state
    /\ mode' = Browse
    /\ UNCHANGED <<trail, edge_list_state, input>>
    /\ graph' = Some(from_skills(RefreshCrossrefs(crossrefs, skills), skills, order, porder))

refresh(order, porder) ==
    /\ list_state' = IF skills # <<>> THEN Some(0) ELSE list_state
    /\ trail' = <<>>
    /\ mode' = Browse
    /\ UNCHANGED <<edge_list_state, input>>
    /\ graph' = Some(from_skills(RefreshCrossrefs(crossrefs, skills), skills, order, porder))

\* toggle_mode clearing the trail on leaving Focus.
toggle_mode_ClearOnLeave ==
    /\ IF mode = Browse
       THEN IF focused_skill # None
            THEN /\ Len(trail) < MaxTrail
                 /\ trail' = Append(trail, focused_skill[1])
                 /\ mode' = Focus
                 /\ edge_list_state' = Some(0)
            ELSE UNCHANGED <<trail, mode, edge_list_state>>
       ELSE /\ mode' = Browse
            /\ trail' = <<>>
            /\ UNCHANGED edge_list_state
    /\ UNCHANGED <<list_state, graph, input>>

\* toggle_mode starting a fresh trail on entering Focus.
toggle_mode_FreshTrail ==
    /\ IF mode = Browse
       THEN IF focused_skill # None
            THEN /\ Len(trail) < MaxTrail
                 /\ trail' = <<focused_skill[1]>>
                 /\ mode' = Focus
                 /\ edge_list_state' = Some(0)
            ELSE UNCHANGED <<trail, mode, edge_list_state>>
       ELSE /\ mode' = Browse
            /\ UNCHANGED <<trail, edge_list_state>>
    /\ UNCHANGED <<list_state, graph, input>>

toggle_mode ==
    /\ IF mode = Browse
       THEN IF focused_skill # None
            THEN /\ Len(trail) < MaxTrail
                 /\ trail' = Append(trail, focused_skill[1])
                 /\ mode' = Focus
                 /\ edge_list_state' = Some(0)
            ELSE UNCHANGED <<trail, mode, edge_list_state>>
       ELSE /\ mode' = Browse
            /\ UNCHANGED <<trail, edge_list_state>>
    /\ UNCHANGED <<list_state, graph, input>>

\* navigate_back clearing a trail kept in Browse.
navigate_back_ClearInBrowse ==
    /\ IF mode = Focus /\ Len(trail) > 1
       THEN /\ trail' = SubSeq(trail, 1, Len(trail) - 1)
            /\ edge_list_state' = Some(0)
            /\ UNCHANGED mode
       ELSE /\ mode' = Browse
            /\ trail' = <<>>
            /\ UNCHANGED edge_list_state
    /\ UNCHANGED <<list_state, graph, input>>

\* navigate_back popping without moving the edge cursor.
navigate_back_KeepCursor ==
    /\ IF mode = Focus /\ Len(trail) > 1
       THEN /\ trail' = SubSeq(trail, 1, Len(trail) - 1)
            /\ UNCHANGED <<mode, edge_list_state>>
       ELSE IF mode = Focus
            THEN /\ mode' = Browse
                 /\ trail' = <<>>
                 /\ UNCHANGED edge_list_state
            ELSE UNCHANGED <<mode, trail, edge_list_state>>
    /\ UNCHANGED <<list_state, graph, input>>

\* navigate_back leaving Focus whatever the length of the trail.
navigate_back_AlwaysLeave ==
    /\ IF mode = Focus
       THEN /\ mode' = Browse
            /\ trail' = <<>>
            /\ UNCHANGED edge_list_state
       ELSE UNCHANGED <<mode, trail, edge_list_state>>
    /\ UNCHANGED <<list_state, graph, input>>

navigate_back ==
    /\ IF mode = Focus /\ Len(trail) > 1
       THEN /\ trail' = SubSeq(trail, 1, Len(trail) - 1)
            /\ edge_list_state' = Some(0)
            /\ UNCHANGED mode
       ELSE IF mode = Focus
            THEN /\ mode' = Browse
                 /\ trail' = <<>>
                 /\ UNCHANGED edge_list_state
            ELSE UNCHANGED <<mode, trail, edge_list_state>>
    /\ UNCHANGED <<list_state, graph, input>>

\* follow_edge reading the row after the cursor's.
follow_edge_NextRow ==
    /\ IF mode # Focus \/ trail = <<>> \/ graph = None
       THEN UNCHANGED <<trail, edge_list_state>>
       ELSE LET edges == all_edges(graph[1], trail[Len(trail)])
                idx == IF edge_list_state = None THEN 0 ELSE edge_list_state[1]
                row == Get(edges, idx + 1)
            IN  IF edges = <<>> \/ row = None
                THEN UNCHANGED <<trail, edge_list_state>>
                ELSE /\ Len(trail) < MaxTrail
                     /\ trail' = Append(trail, row[1])
                     /\ edge_list_state' = Some(0)
    /\ UNCHANGED <<mode, list_state, graph, input>>

follow_edge ==
    /\ IF mode # Focus \/ trail = <<>> \/ graph = None
       THEN UNCHANGED <<trail, edge_list_state>>
       ELSE LET edges == all_edges(graph[1], trail[Len(trail)])
                idx == IF edge_list_state = None THEN 0 ELSE edge_list_state[1]
                row == Get(edges, idx)
            IN  IF edges = <<>> \/ row = None
                THEN UNCHANGED <<trail, edge_list_state>>
                ELSE /\ Len(trail) < MaxTrail
                     /\ trail' = Append(trail, row[1])
                     /\ edge_list_state' = Some(0)
    /\ UNCHANGED <<mode, list_state, graph, input>>

\* next wrapping one row late in Browse.
next_WrapLate ==
    /\ IF mode = Browse
       THEN /\ IF graph # None /\ node_count(graph[1]) # 0
               THEN list_state' = Some(IF list_state[1] >= node_count(graph[1])
                                       THEN 0 ELSE list_state[1] + 1)
               ELSE UNCHANGED list_state
            /\ UNCHANGED edge_list_state
       ELSE /\ IF trail = <<>> \/ graph = None
               THEN UNCHANGED edge_list_state
               ELSE LET edge_count == count_edges(graph[1], trail[Len(trail)])
                    IN  IF edge_count = 0 THEN UNCHANGED edge_list_state
                        ELSE edge_list_state' = Some(StepForward(edge_list_state, edge_count))
            /\ UNCHANGED list_state
    /\ UNCHANGED <<mode, graph, trail, input>>

next ==
    /\ IF mode = Browse
       THEN /\ IF graph # None /\ node_count(graph[1]) # 0
               THEN list_state' = Some(StepForward(list_state, node_count(graph[1])))
               ELSE UNCHANGED list_state
            /\ UNCHANGED edge_list_state
       ELSE /\ IF trail = <<>> \/ graph = None
               THEN UNCHANGED edge_list_state
               ELSE LET edge_count == count_edges(graph[1], trail[Len(trail)])
                    IN  IF edge_count = 0 THEN UNCHANGED edge_list_state
                        ELSE edge_list_state' = Some(StepForward(edge_list_state, edge_count))
            /\ UNCHANGED list_state
    /\ UNCHANGED <<mode, graph, trail, input>>

\* previous counting only the outgoing edges in Focus.
previous_OutgoingOnly ==
    /\ IF mode = Browse
       THEN /\ IF graph # None /\ node_count(graph[1]) # 0
               THEN list_state' = Some(StepBackward(list_state, node_count(graph[1])))
               ELSE UNCHANGED list_state
            /\ UNCHANGED edge_list_state
       ELSE /\ IF trail = <<>> \/ graph = None
               THEN UNCHANGED edge_list_state
               ELSE LET edge_count == LenOrZero(edges_from(graph[1], trail[Len(trail)]))
                    IN  IF edge_count = 0 THEN UNCHANGED edge_list_state
                        ELSE edge_list_state' = Some(StepBackward(edge_list_state, edge_count))
            /\ UNCHANGED list_state
    /\ UNCHANGED <<mode, graph, trail, input>>

previous ==
    /\ IF mode = Browse
       THEN /\ IF graph # None /\ node_count(graph[1]) # 0
               THEN list_state' = Some(StepBackward(list_state, node_count(graph[1])))
               ELSE UNCHANGED list_state
            /\ UNCHANGED edge_list_state
       ELSE /\ IF trail = <<>> \/ graph = None
               THEN UNCHANGED edge_list_state
               ELSE LET edge_count == count_edges(graph[1], trail[Len(trail)])
                    IN  IF edge_count = 0 THEN UNCHANGED edge_list_state
                        ELSE edge_list_state' = Some(StepBackward(edge_list_state, edge_count))
            /\ UNCHANGED list_state
    /\ UNCHANGED <<mode, graph, trail, input>>

\* The skills on disk between two refreshes: discovered skills, the
\* references the extractor finds in their files (to known skills only)
\* and their pipeline declarations.
NavDeclare ==
    /\ decls < MaxNavDecls
    /\ \/ \E name \in Names : Discover(name)
       \/ \E source, target \in SkillNames(skills) : InsertCrossRef(source, target)
       \/ \E i \in DOMAIN skills, dep \in Names : DeclareAfter(i, "p", dep)

\* The directory of the last discovered skill is gone from the disk:
\* the next refresh is handed a skills list without it, and the
\* extractor, told the known names, finds no reference to it. The
\* removal counts as one of the changes on disk `decls` bounds.
RemoveSkill ==
    /\ decls < MaxNavDecls
    /\ skills # <<>>
    /\ LET gone == skills[Len(skills)].name
           left(refs) == SelectSeq(refs, LAMBDA t : t # gone)
       IN  /\ skills' = SubSeq(skills, 1, Len(skills) - 1)
           /\ crossrefs' = [name \in Names |->
                               IF name = gone \/ crossrefs[name] = None THEN None
                               ELSE IF left(crossrefs[name][1]) = <<>> THEN None
                               ELSE Some(left(crossrefs[name][1]))]
    /\ decls' = decls + 1
    /\ UNCHANGED <<full_graph, skill_graph, filter, result, view>>

Refresh ==
    \E order \in NameOrders(CrossrefKeys(RefreshCrossrefs(crossrefs, skills))),
       porder \in PipelineOrders(skills) :
        refresh(order, porder)

NavNext ==
    \/ NavDeclare
    \/ RemoveSkill
    \/ Refresh
    \/ toggle_mode
    \/ navigate_back
    \/ follow_edge
    \/ next
    \/ previous

NavSpec == Init /\ [][NavNext]_vars

\* ---- what the input declares ----
Built == full_graph # None

\* The (source, target) pairs the cross-references name.
CrossrefPairs == {<<k, t>> \in Names \X Names :
                     crossrefs[k] # None /\ t \in Range(crossrefs[k][1])}

\* The declared stages: <<index of the skill, pipeline name>>.
Stages == {<<i, p>> \in (DOMAIN skills) \X PipelineNames : skills[i].pipeline[p] # None}
AfterOf(ip) == skills[ip[1]].pipeline[ip[2]][1].after
BeforeOf(ip) == skills[ip[1]].pipeline[ip[2]][1].before

\* The pairs the pipeline declarations name: skill -> dep for `after`,
\* dep -> skill for `before`.
AfterPairs == {<<s, d>> \in Names \X Names :
                   \E ip \in Stages : skills[ip[1]].name = s /\ d \in Range(AfterOf(ip))}
BeforePairs == {<<d, s>> \in Names \X Names :
                   \E ip \in Stages : skills[ip[1]].name = s /\ d \in Range(BeforeOf(ip))}
PipelinePairs == AfterPairs \cup BeforePairs

EdgesOn(g, pair) == {i \in DOMAIN g.edges : g.edges[i].source = pair[1] /\ g.edges[i].target = pair[2]}
EdgeSet(g) == Range(g.edges)
NodeSet(g) == Range(g.nodes)

HasRepeat(s) == \E i, j \in DOMAIN s : i # j /\ s[i] = s[j]

\* ---- C1 ----
\* C1: the built graph has at most one edge per ordered (source, target)
\* pair, and every pair a cross-reference list names (however often) has
\* exactly one edge, of kind CrossRef.
C1_OneEdgePerPair ==
    Built =>
        LET g == full_graph[1]
        IN  /\ \A i, j \in DOMAIN g.edges :
                  (g.edges[i].source = g.edges[j].source /\ g.edges[i].target = g.edges[j].target)
                      => i = j
            /\ \A pair \in CrossrefPairs :
                  /\ Cardinality(EdgesOn(g, pair)) = 1
                  /\ \A i \in EdgesOn(g, pair) : g.edges[i].kind = CrossRefKind

\* A built graph whose input repeats a cross-reference and names the same
\* pair in a pipeline declaration too.
C1_Witness ==
    /\ Built
    /\ \E k \in CrossrefKeys(crossrefs) :
          /\ HasRepeat(crossrefs[k][1])
          /\ \E t \in Range(crossrefs[k][1]) : <<k, t>> \in PipelinePairs

\* ---- C2 ----
\* What the four exporters print for a graph, when name_to_node is
\* iterated in `order`.
Exports(g, order) == <<to_dot(g, order), to_text(g, order), to_json(g, order), to_mermaid(g)>>

\* C2: building the same (crossrefs, skills) again gives the same four
\* exports, whatever the iteration orders of the maps were.
C2_SameExports ==
    [][(Built /\ full_graph' # None /\ crossrefs' = crossrefs /\ skills' = skills)
          => \A o1, o2 \in Perms(Names) : Exports(full_graph'[1], o1) = Exports(full_graph[1], o2)]_vars

\* ---- C3 ----
RemoveAt(s, k) == [i \in 1..(Len(s) - 1) |-> IF i < k THEN s[i] ELSE s[i + 1]]

IndexOf(sk, name) == CHOOSE j \in DOMAIN sk : sk[j].name = name

\* The skills with the k-th `before` entry B of stage ip (on skill A)
\* taken out, and A appended to the `after` list of B's stage of the same
\* pipeline instead.
BeforeAsAfter(sk, ip, k) ==
    LET i == ip[1]
        p == ip[2]
        A == sk[i].name
        j == IndexOf(sk, sk[i].pipeline[p][1].before[k])
        sk1 == [sk EXCEPT ![i].pipeline[p] = Some([@[1] EXCEPT !.before = RemoveAt(@, k)])]
    IN  [sk1 EXCEPT ![j].pipeline[p] = Some([StageOf(sk1[j], p) EXCEPT !.after = Append(@, A)])]

SameAsAfter(g, ip, k) ==
    \A order \in NameOrders(CrossrefKeys(crossrefs)), porder \in Perms(PipelineNames) :
        EdgeSet(from_skills(crossrefs, BeforeAsAfter(skills, ip, k), order, porder)) = EdgeSet(g)

\* C3 as stated: a stage on A listing before: [B], B a skill, gives a
\* Pipeline edge from A to B, and the same edge set as after: [A] on B.
C3_BeforeEdgeFromAToB ==
    Built =>
        \A ip \in Stages : \A k \in DOMAIN BeforeOf(ip) :
            LET A == skills[ip[1]].name
                B == BeforeOf(ip)[k]
            IN  B \in SkillNames(skills) =>
                    /\ Edge(A, B, PipelineKind) \in EdgeSet(full_graph[1])
                    /\ SameAsAfter(full_graph[1], ip, k)

\* C3 amended: the edge runs from B to A (of kind Pipeline unless a
\* cross-reference B -> A made the pair an edge first), and the edge set
\* is the one built from after: [A] on B.
C3_BeforeEdgeFromBToA ==
    Built =>
        \A ip \in Stages : \A k \in DOMAIN BeforeOf(ip) :
            LET A == skills[ip[1]].name
                B == BeforeOf(ip)[k]
            IN  B \in SkillNames(skills) =>
                    /\ Edge(B, A, IF <<B, A>> \in CrossrefPairs THEN CrossRefKind ELSE PipelineKind)
                           \in EdgeSet(full_graph[1])
                    /\ SameAsAfter(full_graph[1], ip, k)

\* A built graph from a stage on A listing another skill B in `before`,
\* the pair B -> A being named by nothing else.
C3_Witness ==
    /\ Built
    /\ \E ip \in Stages : \E B \in Range(BeforeOf(ip)) :
          /\ B \in SkillNames(skills)
          /\ B # skills[ip[1]].name
          /\ <<B, skills[ip[1]].name>> \notin CrossrefPairs \cup AfterPairs

\* ---- C4 ----
\* C4: the nodes are the names of crossrefs and skills only; a pair named
\* by `after` (skill -> dep) or `before` (dep -> skill) has an edge iff
\* both ends are nodes, that edge is the Pipeline one unless a
\* cross-reference took the pair first, and every Pipeline edge comes from
\* such a declaration.
C4_PipelineEdges ==
    Built =>
        LET g == full_graph[1]
        IN  /\ NodeSet(g) = CrossrefKeys(crossrefs) \cup CrossrefTargets(crossrefs) \cup SkillNames(skills)
            /\ \A pair \in PipelinePairs :
                  IF pair[1] \in NodeSet(g) /\ pair[2] \in NodeSet(g)
                  THEN /\ Cardinality(EdgesOn(g, pair)) = 1
                       /\ pair \notin CrossrefPairs
                             => Edge(pair[1], pair[2], PipelineKind) \in EdgeSet(g)
                  ELSE EdgesOn(g, pair) = {}
            /\ \A e \in EdgeSet(g) :
                  e.kind = PipelineKind => <<e.source, e.target>> \in PipelinePairs \ CrossrefPairs

\* A built graph whose input has an `after` entry and a `before` entry on
\* nodes, and a pipeline entry naming something that is no node.
C4_Witness ==
    /\ Built
    /\ \E pair \in AfterPairs \ CrossrefPairs : pair[2] \in NodeSet(full_graph[1])
    /\ \E pair \in BeforePairs \ CrossrefPairs : pair[1] \in NodeSet(full_graph[1])
    /\ \E pair \in PipelinePairs : pair[1] \notin NodeSet(full_graph[1]) \/ pair[2] \notin NodeSet(full_graph[1])

\* ---- C5 ----
\* The cross-references whose target is neither a crossrefs key nor a
\* skill record.
DanglingRefs == {pair \in CrossrefPairs :
                    pair[2] \notin CrossrefKeys(crossrefs) \cup SkillNames(skills)}

\* C5 as stated: such a cross-reference adds no node and no edge, and the
\* build does not fail.
C5_DanglingDropped ==
    Built =>
        /\ ~full_graph[1].panicked
        /\ \A pair \in DanglingRefs :
              /\ pair[2] \notin NodeSet(full_graph[1])
              /\ EdgesOn(full_graph[1], pair) = {}

\* C5 amended: such a target is a node all the same, the reference is one
\* CrossRef edge, and the build does not fail.
C5_DanglingIsNode ==
    Built =>
        /\ ~full_graph[1].panicked
        /\ \A pair \in DanglingRefs :
              /\ pair[2] \in NodeSet(full_graph[1])
              /\ Cardinality(EdgesOn(full_graph[1], pair)) = 1
              /\ Edge(pair[1], pair[2], CrossRefKind) \in EdgeSet(full_graph[1])

C5_Witness == Built /\ DanglingRefs # {}

\* ---- C6 ----
\* A skill record with no cross-reference of its own and no pipeline entry.
NoOwnDeclarations(i) ==
    /\ crossrefs[skills[i].name] = None \/ crossrefs[skills[i].name] = Some(<<>>)
    /\ \A p \in PipelineNames : skills[i].pipeline[p] = None

\* ... that no cross-reference and no pipeline entry of any skill names.
NotNamed(i) ==
    /\ skills[i].name \notin CrossrefTargets(crossrefs)
    /\ \A ip \in Stages : skills[i].name \notin Range(AfterOf(ip)) \cup Range(BeforeOf(ip))

\* C6 as stated: a skill with zero cross-references and zero pipeline
\* entries is a node, a root and a leaf.
C6_NoDeclarationsRootAndLeaf ==
    Built =>
        \A i \in DOMAIN skills :
            NoOwnDeclarations(i) =>
                /\ skills[i].name \in NodeSet(full_graph[1])
                /\ skills[i].name \in Range(full_graph[1].roots)
                /\ skills[i].name \in Range(full_graph[1].leaves)

\* C6 amended: every skill is a node; one with no declarations of its own
\* that nothing else names is a root and a leaf.
C6_IsolatedRootAndLeaf ==
    Built =>
        \A i \in DOMAIN skills :
            /\ skills[i].name \in NodeSet(full_graph[1])
            /\ (NoOwnDeclarations(i) /\ NotNamed(i)) =>
                  /\ skills[i].name \in Range(full_graph[1].roots)
                  /\ skills[i].name \in Range(full_graph[1].leaves)

\* A built graph with an edge and a skill that takes part in nothing.
C6_Witness ==
    /\ Built
    /\ full_graph[1].edges # <<>>
    /\ \E i \in DOMAIN skills : NoOwnDeclarations(i) /\ NotNamed(i)

\* ---- C7 ----
StrictlySorted(s) == \A i, j \in DOMAIN s : i < j => s[i] < s[j]

\* C7: roots is the name-sorted, repeat-free list of the nodes no edge
\* points to, leaves that of the nodes no edge leaves; with the single
\* edge A -> B between two nodes, roots = [A] and leaves = [B].
C7_RootsAndLeaves ==
    Built =>
        LET g == full_graph[1]
        IN  /\ StrictlySorted(g.roots)
            /\ StrictlySorted(g.leaves)
            /\ Range(g.roots) = {n \in NodeSet(g) : \A e \in EdgeSet(g) : e.target # n}
            /\ Range(g.leaves) = {n \in NodeSet(g) : \A e \in EdgeSet(g) : e.source # n}
            /\ (Len(g.edges) = 1 /\ NodeSet(g) = {g.edges[1].source, g.edges[1].target}
                    /\ g.edges[1].source # g.edges[1].target)
                  => (g.roots = <<g.edges[1].source>> /\ g.leaves = <<g.edges[1].target>>)

\* A built graph with the single edge A -> B between its two nodes.
C7_Witness ==
    /\ Built
    /\ Len(full_graph[1].edges) = 1
    /\ Len(full_graph[1].nodes) = 2
    /\ full_graph[1].edges[1].source # full_graph[1].edges[1].target

RECURSIVE PathPairs(_)
PathPairs(R) ==
    LET step == {pr \in Names \X Names : \E m \in Names : <<pr[1], m>> \in R /\ <<m, pr[2]>> \in R}
    IN  IF step \subseteq R THEN R ELSE PathPairs(R \cup step)

OnCycleWith(g, n) ==
    LET paths == PathPairs({<<e.source, e.target>> : e \in EdgeSet(g)})
    IN  {n} \cup {m \in NodeSet(g) : <<n, m>> \in paths /\ <<m, n>> \in paths}

\* C9: clusters lists, once each and without repeated members, exactly the
\* strongly connected components of more than one node.
C9_Clusters ==
    Built =>
        LET g == full_graph[1]
            expected == {C \in {OnCycleWith(g, n) : n \in NodeSet(g)} : Cardinality(C) > 1}
        IN  /\ {Range(g.clusters[i]) : i \in DOMAIN g.clusters} = expected
            /\ Len(g.clusters) = Cardinality(expected)
            /\ \A i \in DOMAIN g.clusters : ~HasRepeat(g.clusters[i])

\* A built graph with A -> B and B -> A among its edges and one cluster,
\* of size 2.
C9_Witness ==
    /\ Built
    /\ \E A, B \in NodeSet(full_graph[1]) :
          /\ A # B
          /\ EdgesOn(full_graph[1], <<A, B>>) # {}
          /\ EdgesOn(full_graph[1], <<B, A>>) # {}
          /\ Len(full_graph[1].clusters) = 1
          /\ Range(full_graph[1].clusters[1]) = {A, B}
          /\ Len(full_graph[1].nodes) = 3

\* ---- C10 ----
Filtered == skill_graph # None /\ filter[1].kind # "None"

\* C10: a filter whose keep-set is the parent's whole node set gives a
\* graph with the parent's node count and edge count.
C10_FilterRoundTrip ==
    (Filtered /\ filter[1].keep = NodeSet(full_graph[1])) =>
        /\ Len(skill_graph[1].nodes) = Len(full_graph[1].nodes)
        /\ Len(skill_graph[1].edges) = Len(full_graph[1].edges)

\* A filtered graph whose keep-set was the parent's whole node set, the
\* parent having several nodes and a Pipeline edge.
C10_Witness ==
    /\ Filtered
    /\ filter[1].keep = NodeSet(full_graph[1])
    /\ Len(full_graph[1].nodes) > 1
    /\ \E e \in EdgeSet(full_graph[1]) : e.kind = PipelineKind

\* ---- C11 ----
\* The (source, target) pairs of a graph's edges.
EdgePairs(g) == {<<e.source, e.target>> : e \in EdgeSet(g)}

\* C11: a filtered graph has only nodes of the keep-set, and an edge
\* s -> t exactly when s and t are both kept and the parent graph has an
\* edge s -> t.
C11_FilterKeepsInducedEdges ==
    Filtered =>
        LET child == skill_graph[1]
            parent == full_graph[1]
            keep == filter[1].keep
        IN  /\ NodeSet(child) \subseteq keep
            /\ EdgePairs(child) = {pr \in EdgePairs(parent) : pr[1] \in keep /\ pr[2] \in keep}

\* A filtered graph whose parent has an edge between two kept nodes and
\* an edge that leaves the keep-set.
C11_Witness ==
    /\ Filtered
    /\ \E pr \in EdgePairs(full_graph[1]) : pr[1] \in filter[1].keep /\ pr[2] \in filter[1].keep
    /\ \E pr \in EdgePairs(full_graph[1]) : pr[1] \in filter[1].keep /\ pr[2] \notin filter[1].keep

\* ---- C12 ----
\* C12: the roots, leaves, bridges and clusters of a filtered graph are
\* those of its own nodes and edges, whatever they were in the parent: a
\* kept node whose incoming edges in the parent all come from dropped
\* nodes is a root of the filtered graph.
C12_FilteredAnalysisIsOwn ==
    Filtered =>
        LET g == skill_graph[1]
            expected == {C \in {OnCycleWith(g, n) : n \in NodeSet(g)} : Cardinality(C) > 1}
        IN  /\ Range(g.roots) = {n \in NodeSet(g) : \A e \in EdgeSet(g) : e.target # n}
            /\ Range(g.leaves) = {n \in NodeSet(g) : \A e \in EdgeSet(g) : e.source # n}
            /\ Range(g.bridges) = {n \in NodeSet(g) :
                                      /\ \E e \in EdgeSet(g) : e.target = n
                                      /\ \E e \in EdgeSet(g) : e.source = n}
            /\ {Range(g.clusters[i]) : i \in DOMAIN g.clusters} = expected
            /\ \A n \in NodeSet(g) :
                  (\A e \in EdgeSet(full_graph[1]) : e.target = n => e.source \notin filter[1].keep)
                      => n \in Range(g.roots)

\* A filtered graph with a node that has an incoming edge in the parent,
\* from a dropped node only: not a root of the parent, a root of the
\* filtered graph.
C12_Witness ==
    /\ Filtered
    /\ \E n \in NodeSet(skill_graph[1]) :
          /\ \E e \in EdgeSet(full_graph[1]) : e.target = n
          /\ \A e \in EdgeSet(full_graph[1]) : e.target = n => e.source \notin filter[1].keep
          /\ n \notin Range(full_graph[1].roots)
          /\ n \in Range(skill_graph[1].roots)

\* ---- C13 ----
\* The skills a filter request matches.
Matching(kind, name) ==
    IF kind = "Tag" THEN TaggedSkills(skills, name)
    ELSE IF name \in PipelineNames THEN PipelineSkills(skills, name) ELSE {}

\* The valid names of a kind of filter, sorted: the pipelines some skill
\* declares, the tags some skill carries.
ValidNames(kind) ==
    IF kind = "Tag" THEN SelectSeq(<<"t">>, LAMBDA t : TaggedSkills(skills, t) # {})
    ELSE SelectSeq(PipelineText, LAMBDA p : p \in PipelineNames /\ PipelineSkills(skills, p) # {})

\* The command failed naming `name` and listing the valid names sorted,
\* and printed no export.
FailedListing(kind, name) ==
    /\ ~result[1].ok
    /\ result[1].requested = name
    /\ result[1].available = ValidNames(kind)
    /\ skill_graph = None

\* C13: a pipeline or tag filter request whose name matches no skill ends
\* in a failure that names the requested value and lists all valid names
\* sorted, and no export is produced.
C13_UnknownFilterFails ==
    (result # None /\ result[1].kind \in {"Pipeline", "Tag"}
        /\ Matching(result[1].kind, result[1].requested) = {})
            => FailedListing(result[1].kind, result[1].requested)

\* The pipeline half of C13 alone: a pipeline request matching no skill
\* fails, naming the request and listing the declared pipelines sorted.
C13_UnknownPipelineFails ==
    (result # None /\ result[1].kind = "Pipeline"
        /\ Matching("Pipeline", result[1].requested) = {})
            => FailedListing("Pipeline", result[1].requested)

\* A failed pipeline request with two pipelines to list, declared by the
\* skills in the other order.
C13_PipelineWitness ==
    /\ result # None
    /\ ~result[1].ok
    /\ result[1].available = <<"p", "q">>
    /\ PushedKeys(skills, <<"p", "q">>) = <<"q", "p">>

\* ---- C14 ----
\* C14: whenever the mode is Focus the trail is non-empty.
C14_FocusHasTrail == mode = Focus => trail # <<>>

\* Focus with a trail grown to its bound by toggle_mode and follow_edge,
\* the edge cursor moved by next or previous since.
C14_Witness == mode = Focus /\ Len(trail) = MaxTrail /\ edge_list_state # Some(0)

\* ---- C15 ----
\* A toggle_mode call in Browse with the list cursor on a node.
ToggleOnNode == toggle_mode /\ mode = Browse /\ focused_skill # None

\* C15 as stated: in any Browse state whose list cursor selects a node X,
\* toggle_mode enters Focus with the trail exactly [X] and the edge
\* cursor at the first position.
C15_ToggleTrailIsX ==
    [][ToggleOnNode =>
          (mode' = Focus /\ trail' = <<focused_skill[1]>> /\ edge_list_state' = Some(0))]_vars

\* C15, amended: toggle_mode enters Focus with X appended to the trail
\* the Browse state holds (exactly [X] when that trail is empty) and the
\* edge cursor at the first position.
C15_TogglePushesX ==
    [][ToggleOnNode =>
          /\ mode' = Focus
          /\ trail' = Append(trail, focused_skill[1])
          /\ edge_list_state' = Some(0)
          /\ (trail = <<>> => trail' = <<focused_skill[1]>>)]_vars

\* Focus with a two-entry trail whose first node has no edge to follow:
\* the second entry was pushed by toggle_mode from a Browse state that
\* still held the first.
C15_Witness ==
    /\ mode = Focus
    /\ Len(trail) = 2
    /\ graph # None
    /\ all_edges(graph[1], trail[1]) = <<>>
    /\ edge_list_state = Some(0)

\* ---- C16 ----
\* C16: in Focus, navigate_back with two or more trail entries removes
\* only the last, stays in Focus and puts the edge cursor first; with
\* exactly one entry it clears the trail and returns to Browse.
C16_NavigateBack ==
    [][(navigate_back /\ mode = Focus) =>
          /\ Len(trail) >= 2 =>
                /\ trail' = SubSeq(trail, 1, Len(trail) - 1)
                /\ mode' = Focus
                /\ edge_list_state' = Some(0)
          /\ Len(trail) = 1 => (trail' = <<>> /\ mode' = Browse)]_vars

\* Focus with a trail of two entries and the edge cursor off the first
\* row: navigate_back pops once, then leaves Focus.
C16_Witness ==
    /\ mode = Focus
    /\ Len(trail) = 2
    /\ edge_list_state # None
    /\ edge_list_state[1] > 0

\* ---- C17 ----
\* The node on top of the trail, and the targets of its outgoing edges
\* and the sources of its incoming edges in the view's graph.
Top == trail[Len(trail)]
OutTargets(g, n) == {e.target : e \in {x \in EdgeSet(g) : x.source = n}}
InSources(g, n) == {e.source : e \in {x \in EdgeSet(g) : x.target = n}}
Degree(g, n) == Cardinality(OutTargets(g, n)) + Cardinality(InSources(g, n))

\* The row the edge cursor is on.
EdgeRow == IF edge_list_state = None THEN 0 ELSE edge_list_state[1]

\* C17: in Focus, follow_edge pushes the name at the edge cursor's row of
\* the list "outgoing targets, then incoming sources" of the trail-top
\* node, puts the edge cursor first and stays in Focus; it changes
\* nothing when that node has no edge.
C17_FollowEdge ==
    [][(follow_edge /\ mode = Focus /\ trail # <<>> /\ graph # None) =>
          LET g == graph[1]
              outs == Cardinality(OutTargets(g, Top))
          IN  IF Degree(g, Top) = 0 THEN UNCHANGED view
              ELSE /\ EdgeRow < Degree(g, Top)
                   /\ trail' = Append(trail, all_edges(g, Top)[EdgeRow + 1])
                   /\ EdgeRow < outs => trail'[Len(trail')] \in OutTargets(g, Top)
                   /\ EdgeRow >= outs => trail'[Len(trail')] \in InSources(g, Top)
                   /\ edge_list_state' = Some(0)
                   /\ mode' = Focus]_vars

\* Focus on a node reached by following an incoming edge of a node that
\* has an outgoing edge too: the row followed was past the outgoing rows.
C17_Witness ==
    /\ mode = Focus
    /\ Len(trail) >= 2
    /\ graph # None
    /\ OutTargets(graph[1], trail[1]) # {}
    /\ trail[2] \in InSources(graph[1], trail[1]) \ OutTargets(graph[1], trail[1])
    /\ edge_list_state = Some(0)

\* ---- C18 ----
\* i steps of next from cursor c over n rows.
RECURSIVE NextTimes(_, _, _)
NextTimes(k, c, n) == IF k = 0 THEN c ELSE NextTimes(k - 1, StepForward(Some(c), n), n)

\* C18: in Browse over n > 0 nodes with the list cursor i in 0..n-1,
\* next moves the cursor to (i+1) mod n and previous to (i-1) mod n: n
\* calls of next come back to i, previous from 0 lands on n-1 and
\* previous undoes next; over zero nodes both leave the cursor alone.
C18_BrowseCursorCycles ==
    [][(mode = Browse /\ graph # None) =>
          LET n == Len(graph[1].nodes)
              i == list_state[1]
          IN  IF n = 0 THEN (next \/ previous) => list_state' = list_state
              ELSE (list_state # None /\ i \in 0..(n - 1)) =>
                      /\ next => list_state' = Some((i + 1) % n)
                      /\ previous => list_state' = Some((i + n - 1) % n)
                      /\ NextTimes(n, i, n) = i
                      /\ StepBackward(Some(0), n) = n - 1
                      /\ StepBackward(Some(StepForward(Some(i), n)), n) = i]_vars

\* Browse over three nodes with the list cursor on the last one.
C18_Witness ==
    /\ mode = Browse
    /\ graph # None
    /\ Len(graph[1].nodes) = 3
    /\ list_state = Some(2)

\* ---- C19 ----
\* C19: in Focus, next and previous move the edge cursor cyclically over
\* the m outgoing and incoming edges of the trail-top node, from m-1 to
\* 0 and from 0 to m-1; when m is zero they leave the edge cursor alone.
C19_FocusCursorCycles ==
    [][(mode = Focus /\ trail # <<>> /\ graph # None) =>
          LET m == Degree(graph[1], Top)
          IN  IF m = 0 THEN (next \/ previous) => edge_list_state' = edge_list_state
              ELSE /\ EdgeRow \in 0..(m - 1)
                   /\ next => edge_list_state' = Some((EdgeRow + 1) % m)
                   /\ previous => edge_list_state' = Some((EdgeRow + m - 1) % m)]_vars

\* Focus on a node with an outgoing and an incoming edge, the edge
\* cursor on the last row.
C19_Witness ==
    /\ mode = Focus
    /\ graph # None
    /\ trail # <<>>
    /\ OutTargets(graph[1], Top) # {}
    /\ InSources(graph[1], Top) # {}
    /\ EdgeRow = Degree(graph[1], Top) - 1

\* ---- C20 ----
\* The node names and the edges a graph built from the skills on disk
\* has: the skills, and the declared pairs between them.
LatestNodes == SkillNames(skills)
LatestEdges == {pr \in CrossrefPairs \cup PipelinePairs :
                   pr[1] \in LatestNodes /\ pr[2] \in LatestNodes}

\* C20: from any navigation state, refresh replaces the graph with one
\* built from the latest skills, leaves the mode Browse and the trail
\* empty, and puts the list cursor first when the new graph has nodes.
C20_Refresh ==
    [][Refresh =>
          /\ graph' # None
          /\ NodeSet(graph'[1]) = LatestNodes
          /\ EdgePairs(graph'[1]) = LatestEdges
          /\ mode' = Browse
          /\ trail' = <<>>
          /\ (Len(graph'[1].nodes) > 0 => list_state' = Some(0))]_vars

\* Browse over the latest skills with an empty trail and the list cursor
\* first, the edge cursor still where Focus left it.
C20_Witness ==
    /\ mode = Browse
    /\ trail = <<>>
    /\ graph # None
    /\ NodeSet(graph[1]) = LatestNodes
    /\ EdgePairs(graph[1]) = LatestEdges
    /\ Len(graph[1].nodes) >= 2
    /\ list_state = Some(0)
    /\ edge_list_state # Some(0)

\* ---- C21 ----
\* The targets of a node's outgoing edges, in name order, once each.
RECURSIVE SortedSeq(_)
SortedSeq(S) == IF S = {} THEN <<>> ELSE <<Min(S)>> \o SortedSeq(S \ {Min(S)})
SortedTargets(g, n) == SortedSeq({e.target : e \in {x \in EdgeSet(g) : x.source = n}})

\* The input of the scenario: skills a, b, c (the names 1, 2, 3), the
\* cross-references a -> b and b -> c, no pipeline declaration.
Scenario ==
    /\ SkillNames(skills) = {1, 2, 3}
    /\ CrossrefPairs = {<<1, 2>>, <<2, 3>>}
    /\ PipelinePairs = {}

\* C21: to_text gives the five counts (nodes, clusters, roots, leaves,
\* bridges), then one line per node in name order with the node's
\* outgoing targets name-sorted without repeats, or (none); the scenario
\* a -> b, b -> c gives roots [a], leaves [c], no cluster and the lines
\* a: b, b: c, c: (none).
C21_TextFormat ==
    Built =>
        LET g == full_graph[1]
        IN  \A order \in NamePerms :
              LET text == to_text(g, order)
              IN  /\ Len(text) = 5 + Len(g.nodes)
                  /\ text[1] = <<"Skills", Cardinality(NodeSet(g))>>
                  /\ text[2] = <<"Clusters", Len(g.clusters)>>
                  /\ text[3] = <<"Roots", Len(g.roots)>>
                  /\ text[4] = <<"Leaves", Len(g.leaves)>>
                  /\ text[5] = <<"Bridges", Len(g.bridges)>>
                  /\ StrictlySorted(g.nodes)
                  /\ \A i \in DOMAIN g.nodes :
                        /\ text[5 + i][1] = NameText(g.nodes[i])
                        /\ text[5 + i][2] =
                              IF SortedTargets(g, g.nodes[i]) = <<>> THEN <<<<"(none)">>>>
                              ELSE Texts(SortedTargets(g, g.nodes[i]))
                  /\ Scenario =>
                        /\ g.roots = <<1>>
                        /\ g.leaves = <<3>>
                        /\ g.clusters = <<>>
                        /\ text[6] = <<NameText(1), <<NameText(2)>> >>
                        /\ text[7] = <<NameText(2), <<NameText(3)>> >>
                        /\ text[8] = <<NameText(3), <<<<"(none)">>>> >>

\* The scenario, built.
C21_Witness == Built /\ Scenario

\* A built graph with a node whose outgoing edges petgraph yields in
\* descending order of their targets: the sort of to_text reorders them.
C21_SortWitness ==
    /\ Built
    /\ \E n \in NodeSet(full_graph[1]) :
          LET out == OutEdges(full_graph[1].edges, n)
          IN  Len(out) = 2 /\ out[1].target > out[2].target

\* ---- C22 ----
\* The skills that list their own name in an `after` or `before` list.
SelfListed == {n \in Names : <<n, n>> \in PipelinePairs}

\* The node is a bridge, no root and no leaf, and in no cluster unless a
\* cycle through another node holds it.
BridgeOnly(g, n) ==
    /\ n \in Range(g.bridges)
    /\ n \notin Range(g.roots)
    /\ n \notin Range(g.leaves)
    /\ OnCycleWith(g, n) = {n} => \A i \in DOMAIN g.clusters : n \notin Range(g.clusters[i])

\* C22: a skill that lists its own name in `after` or `before` gets a
\* self-loop edge of kind Pipeline; the node is then in bridges, in
\* neither roots nor leaves, and the self-loop alone puts it in no
\* cluster.
C22_SelfLoopIsPipeline ==
    Built =>
        \A n \in SelfListed :
            /\ Cardinality(EdgesOn(full_graph[1], <<n, n>>)) = 1
            /\ \A i \in EdgesOn(full_graph[1], <<n, n>>) : full_graph[1].edges[i].kind = PipelineKind
            /\ BridgeOnly(full_graph[1], n)

\* C22 without the kind: the self-loop edge exists, once, and the node
\* is a bridge only.
C22_SelfLoopAnyKind ==
    Built =>
        \A n \in SelfListed :
            /\ Cardinality(EdgesOn(full_graph[1], <<n, n>>)) = 1
            /\ BridgeOnly(full_graph[1], n)

\* A built graph of a skill that lists itself and is on no other cycle.
C22_Witness ==
    /\ Built
    /\ \E n \in SelfListed :
          /\ OnCycleWith(full_graph[1], n) = {n}
          /\ <<n, n>> \notin CrossrefPairs
          /\ Len(full_graph[1].nodes) > 1

\* ---- C23 ----
\* C23: an edge whose source equals its target exists only if a skill
\* lists its own name in `after` or `before`; no cross-reference makes
\* one.
C23_SelfEdgeOnlyFromPipeline ==
    Built =>
        \A e \in EdgeSet(full_graph[1]) :
            e.source = e.target => (e.kind = PipelineKind /\ e.source \in SelfListed)

\* A built graph whose input has a cross-reference from a skill to
\* itself and no pipeline declaration.
C23_SelfRefWitness ==
    /\ Built
    /\ \E n \in Names : <<n, n>> \in CrossrefPairs
    /\ PipelinePairs = {}

\* ---- C24 ----
\* C24: first writer wins on the kind. A pair named both by a
\* cross-reference and by an `after`/`before` declaration has its single
\* edge of kind CrossRef; an edge is of kind Pipeline only if the input
\* has no cross-reference of its pair.
C24_FirstWriterWins ==
    Built =>
        LET g == full_graph[1]
        IN  /\ \A pair \in CrossrefPairs \cap PipelinePairs :
                  /\ Cardinality(EdgesOn(g, pair)) = 1
                  /\ \A i \in EdgesOn(g, pair) : g.edges[i].kind = CrossRefKind
            /\ \A e \in EdgeSet(g) :
                  e.kind = PipelineKind =>
                      /\ <<e.source, e.target>> \notin CrossrefPairs
                      /\ <<e.source, e.target>> \in PipelinePairs

\* A built graph with a pair named both ways and a Pipeline edge on
\* another pair.
C24_Witness ==
    /\ Built
    /\ CrossrefPairs \cap PipelinePairs # {}
    /\ \E e \in EdgeSet(full_graph[1]) : e.kind = PipelineKind

\* ---- C25 ----
\* C25: toggle_mode in Focus switches to Browse and leaves the trail,
\* the list cursor and the edge cursor as they are.
C25_ToggleOutKeepsAll ==
    [][(toggle_mode /\ mode = Focus) =>
          (mode' = Browse /\ UNCHANGED <<trail, list_state, edge_list_state>>)]_vars

\* Browse with a trail still held, the list cursor and the edge cursor
\* off their first rows: Focus was left by toggle_mode.
C25_Witness ==
    /\ mode = Browse
    /\ trail # <<>>
    /\ list_state # Some(0)
    /\ edge_list_state # Some(0)

\* ---- C26 ----
\* C26: filtering does not keep the edge kind. Every edge of a graph
\* filtered with the skills it was built from is of kind CrossRef, the
\* edges that are Pipeline edges in the parent included.
C26_FilteredEdgesAreCrossRef ==
    Filtered => \A e \in EdgeSet(skill_graph[1]) : e.kind = CrossRefKind

\* A filtered graph with an edge that is a Pipeline edge in the parent.
C26_Witness ==
    /\ Filtered
    /\ \E e \in EdgeSet(skill_graph[1]) :
          Edge(e.source, e.target, PipelineKind) \in EdgeSet(full_graph[1])

\* ---- C27 ----
\* C27: in every built graph each node is in roots, leaves or bridges,
\* and bridges shares no node with roots or with leaves (a node can be
\* root and leaf at once); to_dot therefore never gives a node the
\* fourth fill colour, white.
C27_EveryNodeHasARole ==
    Built =>
        LET g == full_graph[1]
        IN  /\ \A n \in NodeSet(g) :
                  /\ n \in Range(g.roots) \cup Range(g.leaves) \cup Range(g.bridges)
                  /\ DotColor(g, n) # "white"
            /\ Range(g.bridges) \cap (Range(g.roots) \cup Range(g.leaves)) = {}

\* A built graph with a node that is root and leaf, a node that is only
\* a bridge through its self-loop, and a third node.
C27_Witness ==
    /\ Built
    /\ Range(full_graph[1].roots) \cap Range(full_graph[1].leaves) # {}
    /\ \E n \in Range(full_graph[1].bridges) :
          \A e \in EdgeSet(full_graph[1]) : (e.source = n \/ e.target = n) => e.source = e.target
    /\ Len(full_graph[1].nodes) = 3

\* ---- C28 ----
\* C28: every name in the trail is a node of the graph the view holds.
C28_TrailNamesAreNodes ==
    /\ graph = None => trail = <<>>
    /\ graph # None => Range(trail) \subseteq NodeSet(graph[1])

\* A trail of two different nodes, the second an end of an edge of the
\* first, while the skills on disk no longer include the first: the
\* next refresh builds a graph without it.
C28_Witness ==
    /\ mode = Focus
    /\ Len(trail) = 2
    /\ trail[1] # trail[2]
    /\ graph # None
    /\ trail[2] \in Range(all_edges(graph[1], trail[1]))
    /\ trail[1] \notin SkillNames(skills)

\* ---- C29 ----
\* C29: once refresh has given the view a graph, the cursors stay in
\* range: in Browse over a non-empty graph the list cursor is below the
\* node count; in Focus the edge cursor is 0 when the trail-top node has
\* no edge and otherwise below its outgoing + incoming edge count.
C29_CursorsInRange ==
    graph # None =>
        /\ (mode = Browse /\ Len(graph[1].nodes) > 0) =>
              (list_state # None /\ list_state[1] < Len(graph[1].nodes))
        /\ (mode = Focus /\ trail # <<>>) =>
              IF Degree(graph[1], Top) = 0 THEN edge_list_state = Some(0)
              ELSE edge_list_state # None /\ EdgeRow < Degree(graph[1], Top)

\* Focus on a node reached from one with fewer edges, the edge cursor
\* on a row the earlier node does not have.
C29_Witness ==
    /\ mode = Focus
    /\ graph # None
    /\ Len(trail) = 2
    /\ EdgeRow >= Degree(graph[1], trail[1])
    /\ EdgeRow < Degree(graph[1], Top)

\* Browse over a one-node graph with the list cursor first, one skill
\* left on disk after a removal (no declaration is left of the changes
\* counted).
C29_ShrunkWitness ==
    /\ mode = Browse
    /\ graph # None
    /\ Len(graph[1].nodes) = 1
    /\ list_state = Some(0)
    /\ Len(skills) = 1
    /\ decls > 0
    /\ crossrefs = [n \in Names |-> None]
    /\ \A i \in DOMAIN skills : skills[i].pipeline = NoPipeline

\* ---- C30 ----
\* The navigate_back calls still needed to leave Focus.
CallsLeft(m, t) == IF m = Focus THEN Len(t) ELSE 0

\* C30: from a Focus state with a trail of k entries, k navigate_back
\* calls reach Browse with an empty trail and no fewer do: every call in
\* Focus shortens the trail by one, staying in Focus while an entry is
\* left and ending in Browse with the trail empty at the k-th; a call in
\* Browse changes nothing.
C30_NavigateBackCountsDown ==
    [][navigate_back =>
          IF mode = Focus /\ trail # <<>>
          THEN /\ Len(trail') = Len(trail) - 1
               /\ trail' = SubSeq(trail, 1, Len(trail'))
               /\ CallsLeft(mode', trail') = CallsLeft(mode, trail) - 1
               /\ (Len(trail') = 0) = (mode' = Browse)
          ELSE UNCHANGED vars]_vars

\* Focus with a trail at its bound, of two different nodes, entered
\* from a list cursor off the first row: MaxTrail calls to go.
C30_Witness ==
    /\ mode = Focus
    /\ Len(trail) = MaxTrail
    /\ trail[1] # trail[MaxTrail]
    /\ list_state # Some(0)
====
